---------------------------- MODULE Spec2Model ----------------------------
(***************************************************************************)
(* Model of the Hatchmark authenticity service:                            *)
(*   - the LSB watermark encoder  (watermarker/main.py, apply_watermark)   *)
(*   - the verdict engine         (verification_handler._determine_verdict)*)
(*   - the registration path      (hashing_handler, ledger_handler)        *)
(*   - the queue-driven worker    (watermarker/main.py, process_sqs_message*)
(*     and main) and the verification handler.                             *)
(*                                                                         *)
(* Three specifications share the variables:                               *)
(*   SpecCodec   - apply_watermark / decode on bounded images and payloads *)
(*   SpecVerdict - _determine_verdict on bounded evidence                  *)
(*   Spec        - registration, worker instances, queue, verification     *)
(***************************************************************************)
EXTENDS Integers, Sequences, FiniteSets, TLC

VARIABLES
    \* ---- codec (SpecCodec) ----
    cpc,              \* position: "init" -> "encoded" -> "decoded"
    srcImage,         \* the caller's image object handed to apply_watermark
    watermark_data,   \* the payload: a sequence of character codes
    encodeResult,     \* outcome of apply_watermark: [raised, image]
    extracted,        \* outcome of decode on encodeResult.image
    fingerprints      \* path -> what the path handed to imagehash.phash for
                      \* srcImage, and the fingerprint it got

codecVars == <<cpc, srcImage, watermark_data, encodeResult, extracted, fingerprints>>

VARIABLES
    \* ---- verdict engine (SpecVerdict) ----
    vpc,                    \* position: "init" -> "done"
    v_watermark,            \* watermark_data argument: None or Str(s)
    v_hash,                 \* perceptual_hash argument
    registration_records,   \* the caller's list object (sorted in place)
    records_in,             \* the list as it was when the call was made
    verdict_result          \* the returned verdict_data

verdictVars == <<vpc, v_watermark, v_hash, registration_records, records_in,
                 verdict_result>>

VARIABLES
    \* ---- registration, worker instances, verification (Spec) ----
    deployment,   \* [names: globals bound in the worker module, pyqldb: importable,
                  \*  result_is_dict: the driver's result value is a dict]
    now,          \* the clock datetime.utcnow() reads
    ingestion,    \* ingestion bucket: object key -> image file
    processed,    \* processed bucket: object key -> image file
    ledger,       \* the registrations table: sequence of [id, data]
    queue,        \* the SQS queue: sequence of [body, state, failed];
                  \* failed counts the receives that ended in the fetch or the
                  \* image decode raising
    wpc,          \* worker -> position in main / process_sqs_message
    wmsg,         \* worker -> index in queue of the message it received
    wimage,       \* worker -> <<image returned by download_image_from_s3>>
    wmarked,      \* worker -> <<watermarked_image returned by embed_watermark>>
                  \*           (each << >> while the local is not bound)
    wtrack,       \* worker -> what happened while it processed its message
    acks,         \* record of every delete_message a worker issued
    restarts,     \* worker processes started again after a fatal error
    response      \* << >>, or the one verification request made and its response

sysVars == <<deployment, now, ingestion, processed, ledger, queue,
             wpc, wmsg, wimage, wmarked, wtrack, acks, restarts, response>>

VARIABLES
    \* ---- embed_watermark of two workers on one host (SpecEmbed) ----
    epc,          \* worker -> the line of embed_watermark it is at
    ejob,         \* worker -> [image, text]: the arguments of its call
    eout,         \* worker -> the image its call returned (sequence, empty before)
    tmp           \* /tmp of the host: path -> <<the image saved there>>, << >> if no file

embedVars == <<epc, ejob, eout, tmp>>

VARIABLES
    \* ---- the two registration record stores (SpecLedger) ----
    registrations,  \* the QLDB table `registrations`: documents in insertion order
    mock_assets,    \* local_dev_server.mock_assets: dict fingerprint -> asset record
    accepted        \* every registration answered with success: the store, the
                    \* record and the documentId of the response

ledgerVars == <<registrations, mock_assets, accepted>>

VARIABLES
    \* ---- jobs for several uploads, each processed in one piece (SpecOutputs) ----
    uploaded,     \* INGESTION_BUCKET: object key -> image file
    published,    \* PROCESSED_BUCKET: output key -> image file
    finished      \* the jobs processed and acknowledged: object key and artifact

outputVars == <<uploaded, published, finished>>

vars == <<codecVars, verdictVars, sysVars, embedVars, ledgerVars, outputVars>>

-----------------------------------------------------------------------------
(* Bounds of the model *)

MaxPayloadLen == 2      \* longest payload drawn by InitCodec
MaxRecords == 3         \* longest list of matching records drawn by InitVerdict
MaxJobs == 1            \* registrations (and so queued jobs) in a run of Spec
MaxRestarts == 1        \* worker restarts in a run of Spec

-----------------------------------------------------------------------------
(* Python values *)

None == <<"None">>
Some(v) == <<"Some", v>>
Str(s) == <<"str", s>>

\* truth value of a None-or-string value ("if watermark_data")
Truthy(v) == v # None /\ Len(v[2]) # 0

\* dict.get(key, default)
DictGet(d, key, default) == IF key \in DOMAIN d THEN d[key] ELSE default

NoException == "NoException"

\* character codes the payloads are drawn from (all of them byte values)
ByteVals == {0, 65, 254, 255}

RECURSIVE SeqsUpTo(_, _)
SeqsUpTo(S, n) ==
    IF n = 0 THEN {<< >>}
    ELSE LET shorter == SeqsUpTo(S, n - 1)
         IN  shorter \cup {Append(s, x) : s \in {t \in shorter : Len(t) = n - 1}, x \in S}

-----------------------------------------------------------------------------
(* The parts of the state a specification does not use stay as they are here *)

CodecIdle ==
    /\ cpc = "idle"
    /\ srcImage = None
    /\ watermark_data = << >>
    /\ encodeResult = None
    /\ extracted = None
    /\ fingerprints = None

VerdictIdle ==
    /\ vpc = "idle"
    /\ v_watermark = None
    /\ v_hash = None
    /\ registration_records = << >>
    /\ records_in = << >>
    /\ verdict_result = None

Workers == {"w1", "w2"}

SystemIdle ==
    /\ deployment = None
    /\ now = 0
    /\ ingestion = << >>
    /\ processed = << >>
    /\ ledger = << >>
    /\ queue = << >>
    /\ wpc = [w \in Workers |-> "idle"]
    /\ wmsg = [w \in Workers |-> 0]
    /\ wimage = [w \in Workers |-> << >>]
    /\ wmarked = [w \in Workers |-> << >>]
    /\ wtrack = [w \in Workers |-> None]
    /\ acks = {}
    /\ restarts = 0
    /\ response = << >>

TempPaths == {"/tmp/temp_input.png", "/tmp/temp_output.png"}

EmbedIdle ==
    /\ epc = [w \in Workers |-> "idle"]
    /\ ejob = [w \in Workers |-> None]
    /\ eout = [w \in Workers |-> << >>]
    /\ tmp = [f \in TempPaths |-> << >>]

OutputIdle ==
    /\ uploaded = << >>
    /\ published = << >>
    /\ finished = {}

LedgerIdle ==
    /\ registrations = << >>
    /\ mock_assets = << >>
    /\ accepted = << >>

-----------------------------------------------------------------------------
(* Images: a mode and the pixels in raster order (Image.getdata()).        *)
(* An "RGB" pixel is <<r, g, b>>; an "L" pixel is <<v>>.                   *)

PixelCount(image) == Len(image.pixels)

\* Image.convert('RGB'): a grey pixel v becomes (v, v, v)
convert_RGB(image) ==
    IF image.mode = "RGB" THEN image
    ELSE [mode |-> "RGB",
          pixels |-> [i \in 1..Len(image.pixels) |->
                        <<image.pixels[i][1], image.pixels[i][1], image.pixels[i][1]>>]]

\* the luma of a pixel as Image.convert('L') computes it (ITU-R 601-2, in
\* 16-bit fixed point, rounded)
L24(px) == (px[1] * 19595 + px[2] * 38470 + px[3] * 7471 + 32768) \div 65536

\* Image.convert('L')
convert_L(image) ==
    IF image.mode = "L" THEN image
    ELSE [mode |-> "L",
          pixels |-> [i \in 1..Len(image.pixels) |-> <<L24(image.pixels[i])>>]]

\* imagehash.phash(image): the hash is computed from image.convert('L'); it
\* is kept here as the luma values themselves, so equal fingerprints in the
\* model are equal fingerprints of the library (not the converse)
imagehash_phash(image) ==
    [hashed_mode |-> image.mode,
     value |-> Str(<<"phash", convert_L(image).pixels>>)]

\* hashing_handler.lambda_handler, from the opened image to the fingerprint
hashing_handler_phash(image) ==
    imagehash_phash(IF image.mode # "RGB" THEN convert_RGB(image) ELSE image)

\* verification_handler.lambda_handler, from the opened image to the fingerprint
verification_handler_phash(image) ==
    imagehash_phash(IF image.mode # "RGB" THEN convert_RGB(image) ELSE image)

\* HatchmarkWatermarker.compute_perceptual_hash
compute_perceptual_hash(image) == imagehash_phash(image)

\* the images InitCodec draws: three pixel patterns, two modes
PatternPixel(pat, i) ==
    CASE pat = "dark"   -> <<0, 0, 0>>
      [] pat = "bright" -> <<255, 255, 255>>
      [] pat = "mixed"  -> <<(i * 37) % 256, (i * 11 + 3) % 256, 200>>

MakeImage(mode, pat, n) ==
    [mode |-> mode,
     pixels |-> [i \in 1..n |->
                   IF mode = "RGB" THEN PatternPixel(pat, i)
                   ELSE <<PatternPixel(pat, i)[1]>>]]

\* pixel counts around every capacity boundary 8*len + 16
ImageSizes == {1} \cup {8 * k + 16 + d : k \in 0..MaxPayloadLen, d \in {-1, 0, 1}}

-----------------------------------------------------------------------------
(* HatchmarkWatermarker.apply_watermark *)

RECURSIVE BinDigits(_)
BinDigits(n) == IF n < 2 THEN <<n>> ELSE Append(BinDigits(n \div 2), n % 2)

\* format(ord(char), '08b'): binary digits, zero-padded to at least 8
format_08b(n) ==
    LET d == BinDigits(n)
    IN  IF Len(d) >= 8 THEN d ELSE [i \in 1..(8 - Len(d)) |-> 0] \o d

\* '1111111111111110'
Delimiter == <<1, 1, 1, 1, 1, 1, 1, 1, 1, 1, 1, 1, 1, 1, 1, 0>>

RECURSIVE JoinBits(_)
JoinBits(data) ==
    IF data = << >> THEN << >>
    ELSE format_08b(Head(data)) \o JoinBits(Tail(data))

watermark_binary_of(data) == JoinBits(data) \o Delimiter

\* faulty variant: the whole channel value replaced by the bit
SetLSB_whole_channel(r, bit) == bit

\* (r & 0xFE) | bit
SetLSB(r, bit) == (r - (r % 2)) + bit

\* faulty variant: no copy, the name watermarked bound to the same buffer
Image_copy_alias(heap, ref) == [ref |-> ref, heap |-> heap]

\* watermarked = image.copy(): a new buffer with the pixels of the one copied.
\* heap maps the buffers of the call ("arg" is the caller's) to their contents.
Image_copy(heap, ref) ==
    [ref |-> "copy",
     heap |-> [b \in DOMAIN heap \cup {"copy"} |->
                 IF b = "copy" THEN heap[ref] ELSE heap[b]]]

\* returns the image, the buffer it is in, and the caller's buffer as the
\* call leaves it
apply_watermark(image, data) ==
    LET watermark_binary == watermark_binary_of(data)
        heap0 == [b \in {"arg"} |-> image]
        converted == image.mode # "RGB"
        heap1 == IF converted
                 THEN [b \in {"arg", "converted"} |->
                         IF b = "arg" THEN image ELSE convert_RGB(image)]
                 ELSE heap0
        watermarked == Image_copy(heap1, IF converted THEN "converted" ELSE "arg")
        pixels == watermarked.heap[watermarked.ref].pixels
        modified == [i \in 1..Len(pixels) |->
                        IF i <= Len(watermark_binary)
                        THEN <<SetLSB(pixels[i][1], watermark_binary[i]),
                               pixels[i][2], pixels[i][3]>>
                        ELSE pixels[i]]
        heap2 == [watermarked.heap EXCEPT
                    ![watermarked.ref] = [mode |-> "RGB", pixels |-> modified]]
    IN  [raised |-> NoException,
         image  |-> heap2[watermarked.ref],
         buffer |-> watermarked.ref,
         source |-> heap2["arg"]]

-----------------------------------------------------------------------------
(* WatermarkCodec.decode: red-channel LSBs in raster order, up to the first *)
(* occurrence of the delimiter; the bytes assembled before it.              *)

RedLSBs(image) == [i \in 1..Len(image.pixels) |-> image.pixels[i][1] % 2]

DelimiterAt(bits) ==
    {i \in 0..(Len(bits) - Len(Delimiter)) :
        SubSeq(bits, i + 1, i + Len(Delimiter)) = Delimiter}

Min(S) == CHOOSE x \in S : \A y \in S : x <= y

RECURSIVE BitsToInt(_)
BitsToInt(bits) ==
    IF bits = << >> THEN 0
    ELSE 2 * BitsToInt(SubSeq(bits, 1, Len(bits) - 1)) + bits[Len(bits)]

decode(image) ==
    LET bits == RedLSBs(image)
        found == DelimiterAt(bits)
    IN  IF found = {} THEN None
        ELSE LET nbytes == Min(found) \div 8
             IN  Some([k \in 1..nbytes |->
                        BitsToInt(SubSeq(bits, 8 * (k - 1) + 1, 8 * k))])

-----------------------------------------------------------------------------
(* verification_handler._determine_verdict                                  *)
(* Timestamps are strings, modelled as sequences of digit characters and    *)
(* compared as Python compares strings; confidences are in hundredths       *)
(* (0.95 is 95).                                                            *)

RECURSIVE StrLess(_, _)
StrLess(a, b) ==
    IF b = << >> THEN FALSE
    ELSE IF a = << >> THEN TRUE
    ELSE IF a[1] < b[1] THEN TRUE
    ELSE IF a[1] > b[1] THEN FALSE
    ELSE StrLess(Tail(a), Tail(b))

\* key=lambda x: x.get('timestamp', '')
timestamp_key(x) == DictGet(x, "timestamp", Str(<< >>))[2]

\* list.sort(key=..., reverse=True): descending, equal keys keep their order
RECURSIVE InsertDescending(_, _)
InsertDescending(sorted, x) ==
    IF sorted = << >> THEN <<x>>
    ELSE IF StrLess(timestamp_key(Head(sorted)), timestamp_key(x))
         THEN <<x>> \o sorted
         ELSE <<Head(sorted)>> \o InsertDescending(Tail(sorted), x)

RECURSIVE SortFrom(_, _)
SortFrom(sorted, rest) ==
    IF rest = << >> THEN sorted
    ELSE SortFrom(InsertDescending(sorted, Head(rest)), Tail(rest))

\* faulty variants of the sort: none at all, and ascending (reverse=True left out)
sort_left_as_is(records) == records

RECURSIVE ReverseSeq(_)
ReverseSeq(q) == IF q = << >> THEN << >> ELSE Append(ReverseSeq(Tail(q)), Head(q))

sort_ascending(records) == ReverseSeq(SortFrom(<< >>, ReverseSeq(records)))

sort_by_timestamp_reverse(records) == SortFrom(<< >>, records)

\* faulty variant: the flag taken from the truth value of the payload
watermark_found_if_truthy(watermark) == Truthy(watermark)

\* 'watermarkFound': watermark_data is not None
watermark_found(watermark) == watermark # None

\* faulty variant: the confidence given as a percentage
confidence_verified_as_percent == 98 * 100

\* 'confidence': 0.0 of the initial verdict_data
confidence_initial == 0

\* faulty variant: the confidence of the initial verdict_data left in place
confidence_left_initial == confidence_initial

\* the confidence of each verdict, in hundredths
confidence_not_registered == 95
confidence_verified == 98
confidence_mismatch == 60
confidence_missing == 75

\* returns the verdict_data and the caller's list as the call leaves it
_determine_verdict(watermark, perceptual_hash, records) ==
    LET details0 == [watermarkFound   |-> watermark_found(watermark),
                     hashMatch        |-> Len(records) > 0,
                     registrationDate |-> None,
                     documentId       |-> None,
                     perceptualHash   |-> perceptual_hash]
    IN  IF records = << >>
        THEN [verdict_data |-> [verdict |-> "NOT_REGISTERED",
                                confidence |-> confidence_not_registered,
                                details |-> details0],
              records |-> records]
        ELSE
          LET sorted == IF Len(records) > 1
                        THEN sort_by_timestamp_reverse(records) ELSE records
              latest_record == sorted[1]
              details1 == [details0 EXCEPT
                             !.registrationDate = DictGet(latest_record, "timestamp", None),
                             !.documentId = DictGet(latest_record, "documentId", None)]
              data ==
                IF Truthy(watermark)
                   /\ watermark = DictGet(latest_record, "documentId", None)
                THEN [verdict |-> "VERIFIED", confidence |-> confidence_verified,
                      details |-> details1]
                ELSE IF Truthy(watermark)
                THEN [verdict |-> "POTENTIALLY_ALTERED", confidence |-> confidence_mismatch,
                      details |-> details1 @@ [watermarkMismatch |-> TRUE]]
                ELSE IF Len(sorted) > 0
                THEN [verdict |-> "POTENTIALLY_ALTERED", confidence |-> confidence_missing,
                      details |-> details1 @@ [missingWatermark |-> TRUE]]
                ELSE [verdict |-> "NOT_REGISTERED", confidence |-> confidence_initial,
                      details |-> details1]
          IN  [verdict_data |-> data, records |-> sorted]

-----------------------------------------------------------------------------
(* SpecVerdict *)

DocIds == {"d1", "d2"}
Timestamps == {<<1, 0>>, <<2>>}          \* "10" and "2"

\* registration records as dicts; either key may be missing
RecordDicts ==
    {[documentId |-> Str(d), timestamp |-> Str(t)] : d \in DocIds, t \in Timestamps}
    \cup {[documentId |-> Str(d)] : d \in DocIds}
    \cup {[timestamp |-> Str(t)] : t \in Timestamps}
    \cup {[status |-> Str("REGISTERED")]}

Watermarks == {None, Str(""), Str("d1"), Str("d2")}

InitVerdict ==
    /\ vpc = "init"
    /\ v_watermark \in Watermarks
    /\ v_hash = Str("h1")
    /\ registration_records \in SeqsUpTo(RecordDicts, MaxRecords)
    /\ records_in = registration_records
    /\ verdict_result = None
    /\ CodecIdle
    /\ SystemIdle
    /\ EmbedIdle
    /\ LedgerIdle
    /\ OutputIdle

Classify ==
    /\ vpc = "init"
    /\ LET out == _determine_verdict(v_watermark, v_hash, registration_records)
       IN  /\ verdict_result' = out.verdict_data
           /\ registration_records' = out.records
    /\ vpc' = "done"
    /\ UNCHANGED <<v_watermark, v_hash, records_in>>
    /\ UNCHANGED <<codecVars, sysVars, embedVars, ledgerVars, outputVars>>

NextVerdict == Classify

-----------------------------------------------------------------------------
(* SpecCodec *)

InitCodec ==
    /\ cpc = "init"
    /\ srcImage \in {MakeImage(m, p, n) :
                        m \in {"RGB", "L"}, p \in {"dark", "bright", "mixed"},
                        n \in ImageSizes}
    /\ watermark_data \in SeqsUpTo(ByteVals, MaxPayloadLen)
    /\ encodeResult = None
    /\ extracted = None
    /\ fingerprints = None
    /\ VerdictIdle
    /\ SystemIdle
    /\ EmbedIdle
    /\ LedgerIdle
    /\ OutputIdle

Encode ==
    /\ cpc = "init"
    /\ encodeResult' = apply_watermark(srcImage, watermark_data)
    /\ cpc' = "encoded"
    /\ UNCHANGED <<srcImage, watermark_data, extracted, fingerprints>>
    /\ UNCHANGED <<verdictVars, sysVars, embedVars, ledgerVars, outputVars>>

Decode ==
    /\ cpc = "encoded"
    /\ extracted' = decode(encodeResult.image)
    /\ cpc' = "decoded"
    /\ UNCHANGED <<srcImage, watermark_data, encodeResult, fingerprints>>
    /\ UNCHANGED <<verdictVars, sysVars, embedVars, ledgerVars, outputVars>>

-----------------------------------------------------------------------------
(* Image files in the buckets.  A file is its visual content, the text the  *)
(* steganography library has hidden in it (None when it carries none), and  *)
(* whether PIL can open it (decodable: Image.open identifies the format from *)
(* the header) and read its pixels (loadable: the pixel data is read only    *)
(* when first needed).  imagehash.phash and the steganography library        *)
(* are libraries the service calls: phash is a function of the visual       *)
(* content, and Steganography.decode returns what Steganography.encode hid.  *)

ImageFile(content) ==
    [content |-> content, mark |-> None, decodable |-> TRUE, loadable |-> TRUE]

\* bytes no PIL plugin identifies: Image.open raises UnidentifiedImageError
UndecodableFile ==
    [content |-> "X", mark |-> None, decodable |-> FALSE, loadable |-> FALSE]

\* a PNG cut off after its header chunk: Image.open succeeds, reading the
\* pixels raises OSError
TruncatedFile ==
    [content |-> "T", mark |-> None, decodable |-> TRUE, loadable |-> FALSE]

\* str(imagehash.phash(image))
phash(image) == Str(<<"phash", image.content>>)

\* Steganography.encode(temp_input, temp_output, watermark_data)
Steganography_encode(image, text) == [image EXCEPT !.mark = text]

\* Steganography.decode(path): the text hidden in an image file; for an image
\* given by its pixels, the text the decoder of the codec reads from them
Steganography_decode(image) ==
    IF "pixels" \in DOMAIN image
    THEN LET d == decode(image) IN IF d = None THEN None ELSE Str(d[2])
    ELSE image.mark

Key1 == <<"uploads", "u1", "a.png">>
Key2 == <<"uploads", "u2", "b.png">>
ObjectKeys == {Key1, Key2}

\* object_key.split('/')[-1]
original_filename_of(object_key) == object_key[Len(object_key)]

\* f"watermarked/{original_filename}"
output_key_of(object_key) == <<"watermarked", original_filename_of(object_key)>>

Range(f) == {f[x] : x \in DOMAIN f}

-----------------------------------------------------------------------------
(* hashing_handler.lambda_handler: the fingerprint of an uploaded object *)

hashing_handler(store, object_key, clock) ==
    IF object_key \notin DOMAIN store
    THEN [raised |-> "ClientError", result |-> None]
    ELSE IF ~store[object_key].decodable
    THEN [raised |-> "ValueError", result |-> None]
    ELSE [raised |-> NoException,
          result |-> [perceptualHash |-> phash(store[object_key]),
                      bucketName     |-> Str("ingestion"),
                      objectKey      |-> Str(object_key),
                      timestamp      |-> Str(<<clock>>)]]

-----------------------------------------------------------------------------
(* ledger_handler.lambda_handler: insert the registration, answer with the  *)
(* document id.  INSERT returns the id the ledger assigned to the document; *)
(* the handler reads it only from a result that is a dict, and whether the  *)
(* driver's result value is one depends on the installed Ion library: where *)
(* it is not, the handler answers with a fresh uuid instead.                *)

registration_data_of(event) ==
    [timestamp      |-> event.timestamp,
     perceptualHash |-> event.perceptualHash,
     s3IngestionKey |-> event.objectKey,
     status         |-> Str("REGISTERED")]

ledger_handler(event, pyqldb, result_is_dict, table, fallbacks) ==
    IF ~(/\ Truthy(DictGet(event, "bucketName", None))
         /\ Truthy(DictGet(event, "objectKey", None))
         /\ Truthy(DictGet(event, "perceptualHash", None))
         /\ Truthy(DictGet(event, "timestamp", None)))
    THEN [raised |-> "ValueError", table |-> table, response |-> None]
    ELSE IF pyqldb
    THEN LET assigned == Str(<<"qldb", Len(table) + 1>>)
             document_id == IF result_is_dict THEN assigned
                            ELSE Str(<<"uuid", fallbacks + 1>>)
         IN  [raised |-> NoException,
              table |-> Append(table, [id |-> assigned,
                                       data |-> registration_data_of(event)]),
              response |-> [documentId |-> document_id,
                            status |-> Str("REGISTERED"),
                            timestamp |-> event.timestamp,
                            perceptualHash |-> event.perceptualHash]]
    ELSE LET fallback_doc_id == Str(<<"uuid", fallbacks + 1>>)
         IN  [raised |-> NoException,
              table |-> table,
              response |-> [documentId |-> fallback_doc_id,
                            status |-> Str("REGISTERED"),
                            timestamp |-> event.timestamp,
                            perceptualHash |-> event.perceptualHash]]

-----------------------------------------------------------------------------
(* verification_handler.lambda_handler *)

\* SELECT * FROM registrations WHERE perceptualHash = ?  returns the stored
\* documents; the three ways _query_qldb_for_hash returns
_query_qldb_for_hash(perceptual_hash, pyqldb, query_ok, table) ==
    IF ~pyqldb
    THEN IF Truthy(perceptual_hash)
         THEN <<[documentId |-> Str("mock-doc-123"), timestamp |-> Str(<<0>>),
                 perceptualHash |-> perceptual_hash, status |-> Str("REGISTERED")]>>
         ELSE << >>
    ELSE IF ~query_ok THEN << >>
    ELSE LET hit == {i \in 1..Len(table) : table[i].data.perceptualHash = perceptual_hash}
             F[i \in 0..Len(table)] ==
                 IF i = 0 THEN << >>
                 ELSE IF i \in hit THEN Append(F[i - 1], table[i].data) ELSE F[i - 1]
         IN  F[Len(table)]

\* _extract_watermark: any failure (image.save of pixels that cannot be read,
\* the import, the library call) gives None; so does ''
_extract_watermark(image, lib_ok) ==
    IF "loadable" \in DOMAIN image /\ ~image.loadable THEN None
    ELSE IF ~lib_ok THEN None
    ELSE LET extracted_data == Steganography_decode(image)
         IN  IF Truthy(extracted_data) THEN extracted_data ELSE None

\* _extract_image_from_event: None on any exception of Image.open
_extract_image_from_event(file) == IF file.decodable THEN Some(file) ELSE None

\* _compute_perceptual_hash logs and re-raises what imagehash.phash raises
_compute_perceptual_hash(image) ==
    IF image.loadable
    THEN [raised |-> NoException, value |-> phash(image)]
    ELSE [raised |-> "OSError", value |-> None]

\* queried: whether the request reached _query_qldb_for_hash
verification_handler(file, pyqldb, lib_ok, query_ok, table) ==
    IF _extract_image_from_event(file) = None
    THEN [statusCode |-> 400, queried |-> FALSE,
          body |-> [error |-> "No valid image found in request"]]
    ELSE LET wm == _extract_watermark(file, lib_ok)
             hashed == _compute_perceptual_hash(file)
         IN  IF hashed.raised # NoException
             THEN [statusCode |-> 500, queried |-> FALSE,
                   body |-> [error |-> "Internal server error during verification"]]
             ELSE LET perceptual_hash == hashed.value
                      records == _query_qldb_for_hash(perceptual_hash, pyqldb,
                                                      query_ok, table)
                  IN  [statusCode |-> 200, queried |-> TRUE,
                       body |-> _determine_verdict(wm, perceptual_hash,
                                                   records).verdict_data]

-----------------------------------------------------------------------------
(* watermarker/main.py, the queue worker.  The module as shipped binds       *)
(* BytesIO but neither io nor Steganography (lines 7-20), so a call through  *)
(* either name raises NameError; deployment.names says which of the two are  *)
(* bound where the worker runs.                                              *)

\* the processed key of the job with the message body given
JobKeyOf(message_body) == output_key_of(message_body.objectKey[2])

download_image_from_s3(names, store, object_key, s3_ok) ==
    IF ~s3_ok \/ object_key \notin DOMAIN store
    THEN [raised |-> "ClientError", image |-> None]
    ELSE IF "io" \notin names
    THEN [raised |-> "NameError", image |-> None]
    ELSE IF ~store[object_key].decodable
    THEN [raised |-> "UnidentifiedImageError", image |-> None]
    ELSE [raised |-> NoException, image |-> store[object_key]]

\* any exception inside is caught and the original image is returned
embed_watermark(names, image, text, lib_ok) ==
    IF "Steganography" \in names /\ lib_ok
    THEN Steganography_encode(image, text)
    ELSE image

upload_image_to_s3(names, store, object_key, image, s3_ok) ==
    IF "io" \notin names
    THEN [raised |-> "NameError", store |-> store]
    ELSE IF ~s3_ok
    THEN [raised |-> "ClientError", store |-> store]
    ELSE [raised |-> NoException,
          store |-> [k \in DOMAIN store \cup {object_key} |->
                        IF k = object_key THEN image ELSE store[k]]]

\* faulty variant: the message deleted before the upload
NextStepDeleteFirst(step) ==
    CASE step = "parse"    -> "download"
      [] step = "download" -> "embed"
      [] step = "embed"    -> "delete"
      [] step = "delete"   -> "upload"
      [] step = "upload"   -> "poll"

\* the order of the calls in process_sqs_message
NextStep(step) ==
    CASE step = "parse"    -> "download"
      [] step = "download" -> "embed"
      [] step = "embed"    -> "upload"
      [] step = "upload"   -> "delete"
      [] step = "delete"   -> "poll"

NoTrack == [uploaded |-> FALSE, failed |-> "none"]

-----------------------------------------------------------------------------
(* Spec *)

Init ==
    /\ deployment \in {d \in [names : SUBSET {"io", "Steganography"},
                              pyqldb : BOOLEAN, result_is_dict : BOOLEAN] :
                           d.result_is_dict => d.pyqldb}
    /\ now = 1
    /\ ingestion = [k \in ObjectKeys |->
                      IF k = Key1 THEN ImageFile("A") ELSE ImageFile("B")]
    /\ processed = << >>
    /\ ledger = << >>
    /\ queue = << >>
    /\ wpc = [w \in Workers |-> "poll"]
    /\ wmsg = [w \in Workers |-> 0]
    /\ wimage = [w \in Workers |-> << >>]
    /\ wmarked = [w \in Workers |-> << >>]
    /\ wtrack = [w \in Workers |-> NoTrack]
    /\ acks = {}
    /\ restarts = 0
    /\ response = << >>
    /\ CodecIdle
    /\ VerdictIdle
    /\ EmbedIdle
    /\ LedgerIdle
    /\ OutputIdle

\* An upload to the ingestion bucket triggers the hashing handler; the
\* registration workflow it starts runs the ledger handler on its result and
\* queues the job with the object key and the document id returned.
Register(k) ==
    /\ response = << >>
    /\ now <= MaxJobs
    /\ LET h == hashing_handler(ingestion, k, now)
           r == ledger_handler(h.result, deployment.pyqldb, deployment.result_is_dict,
                               ledger, Len(queue))
       IN  /\ h.raised = NoException
           /\ r.raised = NoException
           /\ ledger' = r.table
           /\ queue' = Append(queue,
                              [body |-> [objectKey |-> h.result.objectKey,
                                         qldbDocumentId |-> r.response.documentId],
                               state |-> "visible", failed |-> 0])
    /\ now' = now + 1
    /\ UNCHANGED <<deployment, ingestion, processed, wpc, wmsg, wimage,
                   wmarked, wtrack, acks, restarts, response>>
    /\ UNCHANGED <<codecVars, verdictVars, embedVars, ledgerVars, outputVars>>

\* receive_message returned messages[0]
Receive(w, m) ==
    /\ response = << >>
    /\ wpc[w] = "poll"
    /\ m \in 1..Len(queue)
    /\ queue[m].state = "visible"
    /\ queue' = [queue EXCEPT ![m].state = "inflight"]
    /\ wmsg' = [wmsg EXCEPT ![w] = m]
    /\ wtrack' = [wtrack EXCEPT ![w] = NoTrack]
    /\ wpc' = [wpc EXCEPT ![w] = "parse"]
    /\ UNCHANGED <<deployment, now, ingestion, processed, ledger,
                   wimage, wmarked, acks, restarts, response>>
    /\ UNCHANGED <<codecVars, verdictVars, embedVars, ledgerVars, outputVars>>

\* faulty variant: only the object key is looked at
valid_message_object_key_only(message_body) ==
    Truthy(DictGet(message_body, "objectKey", None))

\* not (not object_key or not qldb_document_id)
valid_message(message_body) ==
    /\ Truthy(DictGet(message_body, "objectKey", None))
    /\ Truthy(DictGet(message_body, "qldbDocumentId", None))

\* the locals of process_sqs_message are gone when it returns or raises
Leave(w, to) ==
    /\ wpc' = [wpc EXCEPT ![w] = to]
    /\ wmsg' = [wmsg EXCEPT ![w] = 0]
    /\ wimage' = [wimage EXCEPT ![w] = << >>]
    /\ wmarked' = [wmarked EXCEPT ![w] = << >>]
    /\ wtrack' = [wtrack EXCEPT ![w] = NoTrack]

\* the message body is read; a body without objectKey or qldbDocumentId
\* makes process_sqs_message return
Parse(w) ==
    /\ response = << >>
    /\ wpc[w] = "parse"
    /\ LET message_body == queue[wmsg[w]].body
       IN  IF valid_message(message_body)
           THEN /\ wpc' = [wpc EXCEPT ![w] = NextStep("parse")]
                /\ UNCHANGED <<wmsg, wimage, wmarked, wtrack>>
           ELSE Leave(w, "poll")
    /\ UNCHANGED <<deployment, now, ingestion, processed, ledger,
                   queue, acks, restarts, response>>
    /\ UNCHANGED <<codecVars, verdictVars, embedVars, ledgerVars, outputVars>>

\* an exception leaves process_sqs_message and main: the process ends
Download(w) ==
    /\ response = << >>
    /\ wpc[w] = "download"
    /\ \E s3_ok \in BOOLEAN :
         LET object_key == queue[wmsg[w]].body.objectKey[2]
             r == download_image_from_s3(deployment.names, ingestion, object_key, s3_ok)
         IN  IF r.raised = NoException
             THEN /\ wimage' = [wimage EXCEPT ![w] = <<r.image>>]
                  /\ wpc' = [wpc EXCEPT ![w] = NextStep("download")]
                  /\ UNCHANGED <<wmsg, wmarked, wtrack, queue>>
             ELSE /\ Leave(w, "dead")
                  /\ queue' = [queue EXCEPT ![wmsg[w]].failed = @ + 1]
    /\ UNCHANGED <<deployment, now, ingestion, processed, ledger,
                   acks, restarts, response>>
    /\ UNCHANGED <<codecVars, verdictVars, embedVars, ledgerVars, outputVars>>

Embed(w) ==
    /\ response = << >>
    /\ wpc[w] = "embed"
    /\ \E lib_ok \in BOOLEAN :
         LET text == DictGet(queue[wmsg[w]].body, "qldbDocumentId", None)
             out == embed_watermark(deployment.names, wimage[w][1], text, lib_ok)
         IN  /\ wmarked' = [wmarked EXCEPT ![w] = <<out>>]
             /\ wtrack' = [wtrack EXCEPT ![w].failed =
                             IF "Steganography" \in deployment.names /\ lib_ok
                             THEN @ ELSE "encode"]
    /\ wpc' = [wpc EXCEPT ![w] = NextStep("embed")]
    /\ UNCHANGED <<deployment, now, ingestion, processed, ledger,
                   queue, wmsg, wimage, acks, restarts, response>>
    /\ UNCHANGED <<codecVars, verdictVars, embedVars, ledgerVars, outputVars>>

Upload(w) ==
    /\ response = << >>
    /\ wpc[w] = "upload"
    /\ \E s3_ok \in BOOLEAN :
         LET object_key == queue[wmsg[w]].body.objectKey[2]
             r == upload_image_to_s3(deployment.names, processed,
                                     output_key_of(object_key), wmarked[w][1], s3_ok)
         IN  IF r.raised = NoException
             THEN /\ processed' = r.store
                  /\ IF NextStep("upload") = "poll"
                     THEN Leave(w, "poll")
                     ELSE /\ wtrack' = [wtrack EXCEPT ![w].uploaded = TRUE]
                          /\ wpc' = [wpc EXCEPT ![w] = NextStep("upload")]
                          /\ UNCHANGED <<wmsg, wimage, wmarked>>
             ELSE /\ Leave(w, "dead")
                  /\ UNCHANGED processed
    /\ UNCHANGED <<deployment, now, ingestion, ledger, queue, acks,
                   restarts, response>>
    /\ UNCHANGED <<codecVars, verdictVars, embedVars, ledgerVars, outputVars>>

\* delete_message with the receipt handle of the received message
Delete(w) ==
    /\ response = << >>
    /\ wpc[w] = "delete"
    /\ \E sqs_ok \in BOOLEAN :
         IF sqs_ok
         THEN /\ queue' = [queue EXCEPT ![wmsg[w]].state = "deleted"]
              /\ acks' = acks \cup {[msg |-> wmsg[w],
                                     uploaded |-> wtrack[w].uploaded,
                                     failed |-> wtrack[w].failed]}
              /\ IF NextStep("delete") = "poll"
                 THEN Leave(w, "poll")
                 ELSE /\ wpc' = [wpc EXCEPT ![w] = NextStep("delete")]
                      /\ UNCHANGED <<wmsg, wimage, wmarked, wtrack>>
         ELSE /\ Leave(w, "dead")
              /\ UNCHANGED <<queue, acks>>
    /\ UNCHANGED <<deployment, now, ingestion, processed, ledger,
                   restarts, response>>
    /\ UNCHANGED <<codecVars, verdictVars, embedVars, ledgerVars, outputVars>>

\* the worker process is killed while it holds a message ("killed"; a process
\* ended by an exception of its own is "dead")
Crash(w) ==
    /\ response = << >>
    /\ wpc[w] \in {"parse", "download", "embed", "upload", "delete"}
    /\ Leave(w, "killed")
    /\ UNCHANGED <<deployment, now, ingestion, processed, ledger,
                   queue, acks, restarts, response>>
    /\ UNCHANGED <<codecVars, verdictVars, embedVars, ledgerVars, outputVars>>

\* the container is started again: main() from the top
Restart(w) ==
    /\ response = << >>
    /\ wpc[w] \in {"dead", "killed"}
    /\ restarts < MaxRestarts
    /\ restarts' = restarts + 1
    /\ wpc' = [wpc EXCEPT ![w] = "poll"]
    /\ UNCHANGED <<deployment, now, ingestion, processed, ledger,
                   queue, wmsg, wimage, wmarked, wtrack, acks, response>>
    /\ UNCHANGED <<codecVars, verdictVars, embedVars, ledgerVars, outputVars>>

\* the queue's visibility timeout of a received message runs out
VisibilityTimeout(m) ==
    /\ response = << >>
    /\ m \in 1..Len(queue)
    /\ queue[m].state = "inflight"
    /\ queue' = [queue EXCEPT ![m].state = "visible"]
    /\ UNCHANGED <<deployment, now, ingestion, processed, ledger,
                   wpc, wmsg, wimage, wmarked, wtrack, acks, restarts, response>>
    /\ UNCHANGED <<codecVars, verdictVars, embedVars, ledgerVars, outputVars>>

\* A file from either bucket is submitted to the verification endpoint.  One
\* request is observed in a run, and the run is observed up to its response.
Verify ==
    /\ response = << >>
    /\ \E file \in Range(ingestion) \cup Range(processed)
                        \cup {UndecodableFile, TruncatedFile} :
       \E lib_ok \in BOOLEAN, query_ok \in BOOLEAN :
         response' = <<[file |-> file, lib_ok |-> lib_ok, query_ok |-> query_ok,
                        out |-> verification_handler(file, deployment.pyqldb, lib_ok,
                                                     query_ok, ledger)]>>
    /\ UNCHANGED <<deployment, now, ingestion, processed, ledger, queue,
                   wpc, wmsg, wimage, wmarked, wtrack, acks, restarts>>
    /\ UNCHANGED <<codecVars, verdictVars, embedVars, ledgerVars, outputVars>>

Next ==
    \/ \E k \in ObjectKeys : Register(k)
    \/ \E w \in Workers, m \in 1..MaxJobs : Receive(w, m)
    \/ \E w \in Workers : Parse(w)
    \/ \E w \in Workers : Download(w)
    \/ \E w \in Workers : Embed(w)
    \/ \E w \in Workers : Upload(w)
    \/ \E w \in Workers : Delete(w)
    \/ \E w \in Workers : Crash(w)
    \/ \E w \in Workers : Restart(w)
    \/ \E m \in 1..MaxJobs : VisibilityTimeout(m)
    \/ Verify


Spec == Init /\ [][Next]_vars

\* the registration and the workers alone, no request to the verification
\* endpoint (Verify observes a run and changes nothing the workers read)
NextWorker ==
    \/ \E k \in ObjectKeys : Register(k)
    \/ \E w \in Workers, m \in 1..MaxJobs : Receive(w, m)
    \/ \E w \in Workers : Parse(w)
    \/ \E w \in Workers : Download(w)
    \/ \E w \in Workers : Embed(w)
    \/ \E w \in Workers : Upload(w)
    \/ \E w \in Workers : Delete(w)
    \/ \E w \in Workers : Crash(w)
    \/ \E w \in Workers : Restart(w)
    \/ \E m \in 1..MaxJobs : VisibilityTimeout(m)

SpecWorker == Init /\ [][NextWorker]_vars

\* The workers and a queue holding one message put there by any producer:
\* a job as the registration workflow writes it, or a body that lacks
\* objectKey or qldbDocumentId (left out, null or empty).
MessageBodies ==
    LET key == Str(Key1)
        doc == Str(<<"qldb", 1>>)
    IN  {[objectKey |-> key, qldbDocumentId |-> doc],
         [objectKey |-> key],
         [qldbDocumentId |-> doc],
         [bucketName |-> Str("ingestion")],
         [objectKey |-> key, qldbDocumentId |-> None],
         [objectKey |-> Str(<< >>), qldbDocumentId |-> doc]}

InitMessages ==
    /\ deployment \in {d \in [names : SUBSET {"io", "Steganography"},
                              pyqldb : BOOLEAN, result_is_dict : BOOLEAN] :
                           d.result_is_dict => d.pyqldb}
    /\ now = 1
    /\ ingestion = [k \in ObjectKeys |->
                      IF k = Key1 THEN ImageFile("A") ELSE ImageFile("B")]
    /\ processed = << >>
    /\ ledger = << >>
    /\ \E body \in MessageBodies :
          queue = <<[body |-> body, state |-> "visible", failed |-> 0]>>
    /\ wpc = [w \in Workers |-> "poll"]
    /\ wmsg = [w \in Workers |-> 0]
    /\ wimage = [w \in Workers |-> << >>]
    /\ wmarked = [w \in Workers |-> << >>]
    /\ wtrack = [w \in Workers |-> NoTrack]
    /\ acks = {}
    /\ restarts = 0
    /\ response = << >>
    /\ CodecIdle
    /\ VerdictIdle
    /\ EmbedIdle
    /\ LedgerIdle
    /\ OutputIdle

NextMessages ==
    \/ \E w \in Workers, m \in 1..MaxJobs : Receive(w, m)
    \/ \E w \in Workers : Parse(w)
    \/ \E w \in Workers : Download(w)
    \/ \E w \in Workers : Embed(w)
    \/ \E w \in Workers : Upload(w)
    \/ \E w \in Workers : Delete(w)
    \/ \E w \in Workers : Crash(w)
    \/ \E w \in Workers : Restart(w)
    \/ \E m \in 1..MaxJobs : VisibilityTimeout(m)

SpecMessages == InitMessages /\ [][NextMessages]_vars

\* The worker with every call to the blob store and the queue succeeding and
\* no process killed: a step of process_sqs_message fails only by what the
\* code itself does.
CallsSucceed(w) ==
    /\ wpc[w] = "download" =>
          LET r == download_image_from_s3(deployment.names, ingestion,
                                          queue[wmsg[w]].body.objectKey[2], TRUE)
          IN  r.raised = NoException => wpc'[w] = NextStep("download")
    /\ wpc[w] = "upload" =>
          LET r == upload_image_to_s3(deployment.names, processed,
                                      JobKeyOf(queue[wmsg[w]].body), wmarked[w][1], TRUE)
          IN  r.raised = NoException => wpc'[w] = NextStep("upload")
    /\ wpc[w] = "delete" => wpc'[w] = NextStep("delete")

WorkerStep(w) ==
    \/ \E m \in 1..MaxJobs : Receive(w, m)
    \/ Parse(w)
    \/ Download(w) /\ CallsSucceed(w)
    \/ Embed(w)
    \/ Upload(w) /\ CallsSucceed(w)
    \/ Delete(w) /\ CallsSucceed(w)
    \/ Restart(w)

NextWorkerLive ==
    \/ \E k \in ObjectKeys : Register(k)
    \/ \E w \in Workers : WorkerStep(w)
    \/ \E m \in 1..MaxJobs : VisibilityTimeout(m)

\* main() runs process_sqs_message in a loop (while True), the container is
\* started again when the process ends, and the queue makes an unacknowledged
\* message visible again.  Every step of a worker changes wpc and every
\* timeout changes queue.
SpecWorkerLive ==
    /\ Init
    /\ [][NextWorkerLive]_vars
    /\ \A w \in Workers : WF_wpc(WorkerStep(w))
    /\ \A m \in 1..MaxJobs : WF_queue(VisibilityTimeout(m))

\* the encoded image goes through _extract_watermark of the verification path
Extract ==
    /\ cpc = "encoded"
    /\ \E lib_ok \in BOOLEAN :
         extracted' = [lib_ok |-> lib_ok,
                       out |-> _extract_watermark(encodeResult.image, lib_ok)]
    /\ cpc' = "extracted"
    /\ UNCHANGED <<srcImage, watermark_data, encodeResult, fingerprints>>
    /\ UNCHANGED <<verdictVars, sysVars, embedVars, ledgerVars, outputVars>>

\* the three places that fingerprint an opened image, applied to srcImage
Fingerprint ==
    /\ cpc = "init"
    /\ fingerprints' = [registration |-> hashing_handler_phash(srcImage),
                        verification |-> verification_handler_phash(srcImage),
                        watermarker  |-> compute_perceptual_hash(srcImage)]
    /\ cpc' = "hashed"
    /\ UNCHANGED <<srcImage, watermark_data, encodeResult, extracted>>
    /\ UNCHANGED <<verdictVars, sysVars, embedVars, ledgerVars, outputVars>>

NextCodec == Encode \/ Decode \/ Extract \/ Fingerprint

SpecCodec == InitCodec /\ [][NextCodec]_vars

SpecVerdict == InitVerdict /\ [][NextVerdict]_vars

-----------------------------------------------------------------------------
(* embed_watermark line by line, for two workers that run on one host: both  *)
(* use the files /tmp/temp_input.png and /tmp/temp_output.png.  The library  *)
(* is bound and works; it raises only when its input file is not there.      *)

temp_input == "/tmp/temp_input.png"
temp_output == "/tmp/temp_output.png"

EmbedJobs ==
    {[image |-> ImageFile("A"), text |-> Str("d1")],
     [image |-> ImageFile("B"), text |-> Str("d2")],
     [image |-> ImageFile("A"), text |-> Str("d3")]}

InitEmbed ==
    /\ epc = [w \in Workers |-> "save"]
    /\ ejob \in {j \in [Workers -> EmbedJobs] : j["w1"] # j["w2"]}
    /\ eout = [w \in Workers |-> << >>]
    /\ tmp = [f \in TempPaths |-> << >>]
    /\ CodecIdle
    /\ VerdictIdle
    /\ SystemIdle
    /\ LedgerIdle
    /\ OutputIdle

\* except Exception: return image
EmbedFallback(w) ==
    /\ eout' = [eout EXCEPT ![w] = <<ejob[w].image>>]
    /\ epc' = [epc EXCEPT ![w] = "returned"]
    /\ UNCHANGED tmp

\* image.save(temp_input, "PNG")
EmbedSave(w) ==
    /\ epc[w] = "save"
    /\ tmp' = [tmp EXCEPT ![temp_input] = <<ejob[w].image>>]
    /\ epc' = [epc EXCEPT ![w] = "encode"]
    /\ UNCHANGED <<ejob, eout>>
    /\ UNCHANGED <<codecVars, verdictVars, sysVars, ledgerVars, outputVars>>

\* Steganography.encode(temp_input, temp_output, watermark_data)
EmbedEncode(w) ==
    /\ epc[w] = "encode"
    /\ IF tmp[temp_input] = << >>
       THEN EmbedFallback(w)
       ELSE /\ tmp' = [tmp EXCEPT ![temp_output] =
                          <<Steganography_encode(tmp[temp_input][1], ejob[w].text)>>]
            /\ epc' = [epc EXCEPT ![w] = "open"]
            /\ UNCHANGED eout
    /\ UNCHANGED ejob
    /\ UNCHANGED <<codecVars, verdictVars, sysVars, ledgerVars, outputVars>>

\* watermarked_image = Image.open(temp_output)
EmbedOpen(w) ==
    /\ epc[w] = "open"
    /\ IF tmp[temp_output] = << >>
       THEN EmbedFallback(w)
       ELSE /\ eout' = [eout EXCEPT ![w] = tmp[temp_output]]
            /\ epc' = [epc EXCEPT ![w] = "remove_input"]
            /\ UNCHANGED tmp
    /\ UNCHANGED ejob
    /\ UNCHANGED <<codecVars, verdictVars, sysVars, ledgerVars, outputVars>>

\* os.remove(temp_input)
EmbedRemoveInput(w) ==
    /\ epc[w] = "remove_input"
    /\ IF tmp[temp_input] = << >>
       THEN EmbedFallback(w)
       ELSE /\ tmp' = [tmp EXCEPT ![temp_input] = << >>]
            /\ epc' = [epc EXCEPT ![w] = "remove_output"]
            /\ UNCHANGED eout
    /\ UNCHANGED ejob
    /\ UNCHANGED <<codecVars, verdictVars, sysVars, ledgerVars, outputVars>>

\* os.remove(temp_output); return watermarked_image
EmbedRemoveOutput(w) ==
    /\ epc[w] = "remove_output"
    /\ IF tmp[temp_output] = << >>
       THEN EmbedFallback(w)
       ELSE /\ tmp' = [tmp EXCEPT ![temp_output] = << >>]
            /\ epc' = [epc EXCEPT ![w] = "returned"]
            /\ UNCHANGED eout
    /\ UNCHANGED ejob
    /\ UNCHANGED <<codecVars, verdictVars, sysVars, ledgerVars, outputVars>>

NextEmbed ==
    \/ \E w \in Workers : EmbedSave(w)
    \/ \E w \in Workers : EmbedEncode(w)
    \/ \E w \in Workers : EmbedOpen(w)
    \/ \E w \in Workers : EmbedRemoveInput(w)
    \/ \E w \in Workers : EmbedRemoveOutput(w)

SpecEmbed == InitEmbed /\ [][NextEmbed]_vars

-----------------------------------------------------------------------------
(* The registration record stores: the QLDB table written by                 *)
(* ledger_handler.lambda_handler (INSERT INTO registrations ?) and the dict  *)
(* mock_assets written by local_dev_server.add_to_ledger.                    *)

MaxRegistrations == 3

Fingerprints == {Str(<<"phash", "A">>), Str(<<"phash", "B">>)}

\* mock_assets[key] = value
DictSet(d, key, value) ==
    [k \in DOMAIN d \cup {key} |-> IF k = key THEN value ELSE d[k]]

\* add_to_ledger: the record is stored under its perceptualHash (creatorId,
\* timestamp and metadata of the record are left out: nothing reads them)
add_to_ledger(assets, data, asset_id) ==
    LET asset_record == [assetId        |-> asset_id,
                         perceptualHash |-> DictGet(data, "perceptualHash", Str("")),
                         objectKey      |-> DictGet(data, "objectKey", Str("")),
                         status         |-> Str("registered")]
    IN  [assets |-> IF Truthy(asset_record.perceptualHash)
                    THEN DictSet(assets, asset_record.perceptualHash, asset_record)
                    ELSE assets,
         asset |-> asset_record]

\* verification by hash of the local server: mock_assets[asset_hash] when the
\* hash is a key of the dict
verify_by_hash(assets, asset_hash) ==
    IF asset_hash \in DOMAIN assets THEN {assets[asset_hash]} ELSE {}

InitLedger ==
    /\ registrations = << >>
    /\ mock_assets = << >>
    /\ accepted = << >>
    /\ CodecIdle
    /\ VerdictIdle
    /\ SystemIdle
    /\ EmbedIdle
    /\ OutputIdle

\* ledger_handler.lambda_handler with pyqldb importable
LedgerInsert(k, h) ==
    /\ Len(accepted) < MaxRegistrations
    /\ LET event == [bucketName |-> Str("ingestion"), objectKey |-> Str(k),
                     perceptualHash |-> h, timestamp |-> Str(<<Len(accepted) + 1>>)]
           r == ledger_handler(event, TRUE, TRUE, registrations, Len(accepted))
       IN  /\ r.raised = NoException
           /\ registrations' = r.table
           /\ accepted' = Append(accepted,
                                 [store |-> "qldb",
                                  record |-> registration_data_of(event),
                                  documentId |-> r.response.documentId])
    /\ UNCHANGED mock_assets
    /\ UNCHANGED <<codecVars, verdictVars, sysVars, embedVars, outputVars>>

\* POST /ledger of the local development server
AddToLedger(k, h) ==
    /\ Len(accepted) < MaxRegistrations
    /\ LET data == [perceptualHash |-> h, objectKey |-> Str(k)]
           r == add_to_ledger(mock_assets, data, Str(<<"uuid", Len(accepted) + 1>>))
       IN  /\ mock_assets' = r.assets
           /\ accepted' = Append(accepted, [store |-> "mock", record |-> r.asset,
                                            documentId |-> r.asset.assetId])
    /\ UNCHANGED registrations
    /\ UNCHANGED <<codecVars, verdictVars, sysVars, embedVars, outputVars>>

NextLedger ==
    \/ \E k \in ObjectKeys, h \in Fingerprints : LedgerInsert(k, h)
    \/ \E k \in ObjectKeys, h \in Fingerprints : AddToLedger(k, h)

SpecLedger == InitLedger /\ [][NextLedger]_vars

-----------------------------------------------------------------------------
(* Several uploads and their jobs.  generate_presigned_url gives every       *)
(* upload the key uploads/<uuid4>/<filename>; the worker, with every call    *)
(* succeeding, processes the job of an uploaded object in one piece.         *)

MaxUploads == 3

Filenames == {"a.png", "b.png"}
UploadIds == {"u1", "u2", "u3"}

\* object_key = f"uploads/{unique_id}/{filename}"
presigned_object_key(unique_id, filename) == <<"uploads", unique_id, filename>>

InitOutputs ==
    /\ uploaded = << >>
    /\ published = << >>
    /\ finished = {}
    /\ CodecIdle
    /\ VerdictIdle
    /\ SystemIdle
    /\ EmbedIdle
    /\ LedgerIdle

\* a creator asks for an upload URL and puts an image there; uuid4 never
\* repeats
PresignedUpload(unique_id, filename) ==
    /\ Cardinality(DOMAIN uploaded) < MaxUploads
    /\ \A k \in DOMAIN uploaded : k[2] # unique_id
    /\ uploaded' = DictSet(uploaded, presigned_object_key(unique_id, filename),
                           ImageFile(unique_id))
    /\ UNCHANGED <<published, finished>>
    /\ UNCHANGED <<codecVars, verdictVars, sysVars, embedVars, ledgerVars>>

\* process_sqs_message for the job of object_key, from the download to
\* delete_message, nothing failing
ProcessJob(object_key) ==
    /\ object_key \in DOMAIN uploaded
    /\ \A j \in finished : j.objectKey # object_key
    /\ LET names == {"io", "Steganography"}
           qldb_document_id == Str(<<"doc", object_key[2]>>)
           image == download_image_from_s3(names, uploaded, object_key, TRUE).image
           watermarked_image == embed_watermark(names, image, qldb_document_id, TRUE)
           r == upload_image_to_s3(names, published, output_key_of(object_key),
                                   watermarked_image, TRUE)
       IN  /\ r.raised = NoException
           /\ published' = r.store
           /\ finished' = finished \cup {[objectKey |-> object_key,
                                          artifact |-> watermarked_image]}
    /\ UNCHANGED uploaded
    /\ UNCHANGED <<codecVars, verdictVars, sysVars, embedVars, ledgerVars>>

NextOutputs ==
    \/ \E u \in UploadIds, f \in Filenames : PresignedUpload(u, f)
    \/ \E k \in DOMAIN uploaded : ProcessJob(k)

SpecOutputs == InitOutputs /\ [][NextOutputs]_vars

-----------------------------------------------------------------------------
(* Properties *)

\* ---- WatermarkCodec ----

Capacity(image) == PixelCount(image)
Needed(data) == 8 * Len(data) + 16

\* C1: round trip.  For every image and payload with 8*len(p)+16 <= pixelCount,
\* decoding the encoded image returns exactly Some(p).
C1_RoundTrip ==
    (cpc = "decoded" /\ Needed(watermark_data) <= Capacity(srcImage))
        => extracted = Some(watermark_data)

\* C2: capacity boundary.  Encoding fails with PayloadTooLarge if and only if
\* 8*len(p)+16 > pixelCount; at equality it succeeds and every payload and
\* delimiter bit is in the image.
C2_CapacityBoundary ==
    cpc # "init" /\ cpc # "idle" =>
        /\ (encodeResult.raised = "PayloadTooLarge")
               <=> (Needed(watermark_data) > Capacity(srcImage))
        /\ Needed(watermark_data) = Capacity(srcImage) =>
               RedLSBs(encodeResult.image) = watermark_binary_of(watermark_data)

\* C16: encode has no side effect on its input.  After the call every pixel
\* of the source buffer is as before, and the result is in a new buffer.
C16_SourceUnchanged ==
    cpc \in {"encoded", "decoded", "extracted"} =>
        /\ encodeResult.source = srcImage
        /\ encodeResult.buffer # "arg"

\* an RGB image was encoded and the result differs from it
C16_Witness ==
    /\ cpc = "encoded"
    /\ srcImage.mode = "RGB"
    /\ encodeResult.image # srcImage
    /\ encodeResult.source = srcImage

\* C17: decode scans the red-channel LSBs in raster order and returns the
\* bytes assembled before the first occurrence of the marker
\* 1111111111111110, and None when the marker does not occur.
C17_DecodeScan ==
    (cpc = "extracted" /\ extracted.lib_ok) =>
        LET bits == RedLSBs(encodeResult.image)
            found == DelimiterAt(bits)
        IN  IF found = {}
            THEN extracted.out = None
            ELSE extracted.out =
                   Str([k \in 1..(Min(found) \div 8) |->
                          BitsToInt(SubSeq(bits, 8 * (k - 1) + 1, 8 * k))])

\* C18: on the verification path an input that cannot be decoded as an image
\* gets a rejected-input response (status 400), with no verdict and without
\* a query to the ledger.
C18_InvalidImageRejected ==
    \A i \in 1..Len(response) :
        LET rq == response[i]
        IN  (~rq.file.decodable \/ ~rq.file.loadable) =>
                /\ rq.out.statusCode = 400
                /\ "verdict" \notin DOMAIN rq.out.body
                /\ ~rq.out.queried

\* C19: on the verification path a failed ledger query surfaces as a generic
\* server fault (status 500); it is never turned into a verdict.
C19_QueryFaultIsServerFault ==
    \A i \in 1..Len(response) :
        LET rq == response[i]
        IN  (rq.out.queried /\ deployment.pyqldb /\ ~rq.query_ok) =>
                /\ rq.out.statusCode = 500
                /\ "verdict" \notin DOMAIN rq.out.body

\* C20: the registration record store is append-only: every record a
\* registration stored is still present and unchanged, and a query by
\* fingerprint returns every record registered with that fingerprint.
C20_AppendOnly ==
    \A i \in 1..Len(accepted) :
        LET a == accepted[i]
        IN  IF a.store = "qldb"
            THEN a.record \in Range(_query_qldb_for_hash(a.record.perceptualHash,
                                                         TRUE, TRUE, registrations))
            ELSE a.record \in verify_by_hash(mock_assets, a.record.perceptualHash)

\* C21: every path that computes the fingerprint (registration hashing,
\* verification, watermarker) first normalises the image to a 3-channel
\* image, and for the same image all of them get the same fingerprint.
C21_SameNormalisation ==
    cpc = "hashed" =>
        /\ fingerprints.registration.value = fingerprints.verification.value
        /\ fingerprints.registration.value = fingerprints.watermarker.value
        /\ \A path \in DOMAIN fingerprints : fingerprints[path].hashed_mode = "RGB"

C23_JobEventuallyDone ==
    \A m \in 1..MaxJobs :
        (m <= Len(queue))
        ~> (/\ m <= Len(queue)
            /\ queue[m].state = "deleted"
            /\ JobKeyOf(queue[m].body) \in DOMAIN processed)

\* bit j (1 = most significant) of byte k of the payload, then the marker
PayloadBit(data, i) ==
    IF i <= 8 * Len(data)
    THEN (data[((i - 1) \div 8) + 1] \div (2 ^ (7 - ((i - 1) % 8)))) % 2
    ELSE Delimiter[i - 8 * Len(data)]

\* C24: encode changes only the least-significant bit of the red channel of
\* the first 8*len(payload)+16 pixels in raster order, one bit per pixel,
\* payload bits most-significant first per byte and then the marker; the
\* upper seven red bits of those pixels, every green and blue value and every
\* later pixel equal the source (in its 3-channel form).
C24_EncodeFrame ==
    cpc = "encoded" =>
        LET src == convert_RGB(srcImage).pixels
            out == encodeResult.image.pixels
            touched == 8 * Len(watermark_data) + 16
        IN  /\ encodeResult.image.mode = "RGB"
            /\ Len(out) = Len(src)
            /\ \A i \in 1..Len(out) :
                   /\ out[i][2] = src[i][2]
                   /\ out[i][3] = src[i][3]
                   /\ out[i][1] \div 2 = src[i][1] \div 2
                   /\ IF i <= touched
                      THEN out[i][1] % 2 = PayloadBit(watermark_data, i)
                      ELSE out[i] = src[i]

\* a payload was embedded in an image with pixels beyond the embedded bits,
\* and some red value changed
C24_Witness ==
    /\ cpc = "encoded"
    /\ watermark_data # << >>
    /\ Len(srcImage.pixels) > 8 * Len(watermark_data) + 16
    /\ encodeResult.image.pixels # convert_RGB(srcImage).pixels

CarriesBothKeys(body) ==
    /\ "objectKey" \in DOMAIN body /\ Truthy(body.objectKey)
    /\ "qldbDocumentId" \in DOMAIN body /\ Truthy(body.qldbDocumentId)

\* C29: a queue message lacking objectKey or qldbDocumentId causes no
\* download, no upload and no acknowledgment: the worker that received it
\* goes no further than reading the body, the blob stores stay as they were
\* and the message stays on the queue.
C29_MalformedIgnored ==
    \A m \in 1..Len(queue) :
        ~CarriesBothKeys(queue[m].body) =>
            /\ queue[m].state \in {"visible", "inflight"}
            /\ \A a \in acks : a.msg # m
            /\ \A w \in Workers :
                   wmsg[w] = m => (wpc[w] = "parse" /\ wimage[w] = << >>
                                                   /\ wmarked[w] = << >>)
            /\ processed = << >>
            /\ ingestion = [k \in ObjectKeys |->
                              IF k = Key1 THEN ImageFile("A") ELSE ImageFile("B")]

\* a worker received a message without qldbDocumentId and returned to polling
C29_Witness ==
    /\ Len(queue) = 1
    /\ "qldbDocumentId" \notin DOMAIN queue[1].body
    /\ queue[1].state = "inflight"
    /\ restarts = 0
    /\ \A w \in Workers : wpc[w] = "poll"

\* C30: the documentId a successful ledger registration returns is the
\* identifier of the record stored: a later query by the record's fingerprint
\* reports that value as the documentId of the record.
C30_ReturnedIdIsStoredId ==
    \A i \in 1..Len(accepted) :
        LET a == accepted[i]
            rows == _query_qldb_for_hash(a.record.perceptualHash, TRUE, TRUE,
                                         registrations)
        IN  a.store = "qldb" =>
                \E n \in 1..Len(rows) :
                    /\ rows[n] = a.record
                    /\ DictGet(rows[n], "documentId", None) = a.documentId

\* ---- VerdictEngine ----

TimestampOf(r) == IF "timestamp" \in DOMAIN r THEN r.timestamp[2] ELSE << >>
IdentifierOf(r) == IF "documentId" \in DOMAIN r THEN r.documentId ELSE None

\* the record with the greatest timestamp, the first of them in input order
LatestIndex(recs) ==
    CHOOSE i \in 1..Len(recs) :
        /\ \A j \in 1..Len(recs) : ~StrLess(TimestampOf(recs[i]), TimestampOf(recs[j]))
        /\ \A j \in 1..(i - 1) : StrLess(TimestampOf(recs[j]), TimestampOf(recs[i]))
LatestRecord(recs) == recs[LatestIndex(recs)]

Classified(v, c) == verdict_result.verdict = v /\ verdict_result.confidence = c
PayloadPresent == v_watermark # None
RecordsMatch == records_in # << >>

\* C4: the verdict table.  Absent payload and no records: NOT_REGISTERED/0.95;
\* records and payload equal to the latest record's identifier: VERIFIED/0.98;
\* records and a present payload that differs: POTENTIALLY_ALTERED/0.60;
\* records and absent payload: POTENTIALLY_ALTERED/0.75.
C4_VerdictTable ==
    vpc = "done" =>
        /\ (~PayloadPresent /\ ~RecordsMatch) => Classified("NOT_REGISTERED", 95)
        /\ (RecordsMatch /\ PayloadPresent
              /\ v_watermark = IdentifierOf(LatestRecord(records_in)))
               => Classified("VERIFIED", 98)
        /\ (RecordsMatch /\ PayloadPresent
              /\ v_watermark # IdentifierOf(LatestRecord(records_in)))
               => Classified("POTENTIALLY_ALTERED", 60)
        /\ (RecordsMatch /\ ~PayloadPresent) => Classified("POTENTIALLY_ALTERED", 75)

\* C5: no false VERIFIED.  VERIFIED is returned only when records match and the
\* payload is present and equals the identifier of the latest matching record;
\* a payload equal to an older record's identifier is not VERIFIED.
C5_NoFalseVerified ==
    (vpc = "done" /\ verdict_result.verdict = "VERIFIED") =>
        /\ RecordsMatch
        /\ PayloadPresent
        /\ v_watermark = IdentifierOf(LatestRecord(records_in))

\* a call that returned VERIFIED although the first record passed in was an
\* older one with another identifier
C5_Witness ==
    /\ vpc = "done"
    /\ verdict_result.verdict = "VERIFIED"
    /\ Len(records_in) >= 2
    /\ LatestIndex(records_in) > 1
    /\ IdentifierOf(records_in[1]) \notin {None, v_watermark}

\* C6: latest-record selection.  The record compared against and reported is
\* the one with the greatest timestamp (compared as strings) whatever the input
\* order, and the first in input order among several with that timestamp.
C6_LatestRecord ==
    (vpc = "done" /\ RecordsMatch) =>
        LET latest == LatestRecord(records_in)
        IN  /\ verdict_result.details.documentId = IdentifierOf(latest)
            /\ verdict_result.details.registrationDate = DictGet(latest, "timestamp", None)
            /\ (verdict_result.verdict = "VERIFIED")
                   <=> (Truthy(v_watermark) /\ v_watermark = IdentifierOf(latest))

\* a call with an older record first ("10" sorts before "2") and two records
\* sharing the greatest timestamp under different identifiers
C6_Witness ==
    /\ vpc = "done"
    /\ Len(records_in) = 3
    /\ TimestampOf(records_in[1]) = <<1, 0>>
    /\ TimestampOf(records_in[2]) = <<2>>
    /\ TimestampOf(records_in[3]) = <<2>>
    /\ IdentifierOf(records_in[2]) = Str("d1")
    /\ IdentifierOf(records_in[3]) = Str("d2")
    /\ verdict_result.details.documentId = Str("d1")

\* C7: the verdict computation is total.  For every payload (absent or present)
\* and every sequence of records the result is one of the three
\* classifications with a confidence in [0, 1] (0..100 hundredths).
C7_Total ==
    vpc = "done" =>
        /\ verdict_result.verdict \in {"VERIFIED", "POTENTIALLY_ALTERED", "NOT_REGISTERED"}
        /\ verdict_result.confidence \in 0..100

\* verdicts of every kind have been returned; this one for a present payload
\* with no matching record
C7_Witness ==
    /\ vpc = "done"
    /\ PayloadPresent
    /\ ~RecordsMatch
    /\ verdict_result.verdict = "NOT_REGISTERED"

\* C8: the evidence in the verdict.  watermarkFound iff a payload was recovered,
\* hashMatch iff records match, and the matched record id is the latest
\* record's identifier when records match and null when none does.
C8_Evidence ==
    vpc = "done" =>
        /\ verdict_result.details.watermarkFound = PayloadPresent
        /\ verdict_result.details.hashMatch = RecordsMatch
        /\ verdict_result.details.documentId =
               IF RecordsMatch THEN IdentifierOf(LatestRecord(records_in)) ELSE None

\* a verdict for a recovered (empty) payload with several matching records
C8_Witness ==
    /\ vpc = "done"
    /\ v_watermark = Str("")
    /\ Len(records_in) >= 2
    /\ verdict_result.details.watermarkFound
    /\ verdict_result.details.documentId # None

\* C25: when no registration record matches, the verdict is NOT_REGISTERED
\* with confidence 0.95 whether or not a payload was recovered; the payload
\* shows only in the watermarkFound flag.
C25_NoMatchNotRegistered ==
    (vpc = "done" /\ ~RecordsMatch) =>
        verdict_result =
            [verdict |-> "NOT_REGISTERED",
             confidence |-> 95,
             details |-> [watermarkFound   |-> PayloadPresent,
                          hashMatch        |-> FALSE,
                          registrationDate |-> None,
                          documentId       |-> None,
                          perceptualHash   |-> v_hash]]

\* a verdict for a recovered identifier with no matching record
C25_Witness ==
    /\ vpc = "done"
    /\ v_watermark = Str("d1")
    /\ records_in = << >>
    /\ verdict_result.confidence = 95

\* C26: _determine_verdict leaves its inputs unchanged: after the call the
\* caller's registration_records holds the same records in the same order.
C26_RecordsUnchanged ==
    vpc = "done" => registration_records = records_in

\* C27: the evidence flags never contradict each other: missingWatermark is
\* set only when watermarkFound is false, watermarkMismatch only when
\* watermarkFound is true, for every payload including the empty string.
C27_FlagsConsistent ==
    vpc = "done" =>
        LET details == verdict_result.details
        IN  /\ "missingWatermark" \in DOMAIN details => ~details.watermarkFound
            /\ "watermarkMismatch" \in DOMAIN details => details.watermarkFound

\* ---- registration, worker, verification ----

C9_AckAfterUpload ==
    \A a \in acks :
        /\ a.uploaded
        /\ output_key_of(queue[a.msg].body.objectKey[2]) \in DOMAIN processed

\* a job has been acknowledged
C9_Witness ==
    \E a \in acks : a.uploaded /\ queue[a.msg].state = "deleted"

JobKey(w) == output_key_of(queue[wmsg[w]].body.objectKey[2])

C14_DecodeFailureNotFatal ==
    [][\A w \in Workers :
         wpc[w] = "download"
         => wpc'[w] \in {"download", "embed", "poll", "killed"}]_vars

\* the attempts a run allows on one job: every worker process there is
MaxAttempts == Cardinality(Workers) + MaxRestarts

\* C15: a poison job is not retried for ever.  A job whose image failed to
\* parse on every attempt the run allows is abandoned (dead-lettered): it is
\* no longer in the queue, neither waiting for a worker nor held by one.
C15_PoisonAbandoned ==
    \A m \in 1..Len(queue) :
        queue[m].failed = MaxAttempts => queue[m].state \notin {"visible", "inflight"}

=============================================================================
